---- MODULE Spec2Model ----
(***************************************************************************)
(* Model of src/alphart/src/App.js: the image-to-ASCII converter.          *)
(*                                                                         *)
(* JavaScript numbers are IEEE-754 binary64.  Every arithmetic expression  *)
(* of the renderer whose result is not an integer (a quotient, a product   *)
(* with a quotient, the luminance sum of products with decimal literals)   *)
(* is evaluated here on binary64 values with round-to-nearest-even, so     *)
(* that Math.floor sees the value the engine produces.                     *)
(***************************************************************************)
EXTENDS Integers, Sequences, FiniteSets, TLC

-----------------------------------------------------------------------------
(* binary64 arithmetic on non-negative finite values.                      *)
(* A value is [m |-> limbs, e |-> exponent]: limbs is a natural number of  *)
(* at most 53 bits, written in base 2^13 with the least significant limb   *)
(* first and no zero limb on top, and the value is limbs * 2^e.  Trailing  *)
(* zero bits are moved into the exponent, so limbs is odd; zero is << >>.  *)

Precision == 53

LimbBits == 13

LimbBase == 8192

RECURSIVE Pow2(_)
Pow2(n) == IF n = 0 THEN 1 ELSE 2 * Pow2(n - 1)

Pow2Tab == [k \in 0..LimbBits |-> Pow2(k)]

Max(a, b) == IF a > b THEN a ELSE b

Min(a, b) == IF a < b THEN a ELSE b

FZero == [m |-> << >>, e |-> 0]

\* limb sequence without zero limbs on top
Trim(limbs) ==
    IF \A i \in 1..Len(limbs) : limbs[i] = 0 THEN << >>
    ELSE SubSeq(limbs, 1, CHOOSE i \in 1..Len(limbs) :
                              limbs[i] # 0 /\ \A j \in (i + 1)..Len(limbs) : limbs[j] = 0)

\* number of bits of a limb 0 <= x < 2^13
Width(x) == CHOOSE k \in 0..LimbBits : x < Pow2Tab[k] /\ (k = 0 \/ x >= Pow2Tab[k - 1])

\* number of bits of a trimmed limb sequence
BitLen(limbs) ==
    IF limbs = << >> THEN 0
    ELSE LimbBits * (Len(limbs) - 1) + Width(limbs[Len(limbs)])

\* bit i (bit 0 is the least significant) of a limb sequence
Bit(limbs, i) ==
    IF i \div LimbBits + 1 > Len(limbs) THEN 0
    ELSE (limbs[i \div LimbBits + 1] \div Pow2Tab[i % LimbBits]) % 2

\* the low s bits of a limb sequence are all zero
LowZero(limbs, s) ==
    /\ \A i \in 1..Min(s \div LimbBits, Len(limbs)) : limbs[i] = 0
    /\ s \div LimbBits + 1 <= Len(limbs)
           => limbs[s \div LimbBits + 1] % Pow2Tab[s % LimbBits] = 0

\* limbs \div 2^s
ShiftRight(limbs, s) ==
    LET a  == s \div LimbBits
        b  == s % LimbBits
        hi == SubSeq(limbs, a + 1, Len(limbs))
    IN  Trim([i \in 1..Len(hi) |->
                 hi[i] \div Pow2Tab[b]
                 + (IF i < Len(hi) THEN (hi[i + 1] % Pow2Tab[b]) * Pow2Tab[LimbBits - b]
                    ELSE 0)])

\* limbs * 2^s
ShiftLeft(limbs, s) ==
    LET a == s \div LimbBits
        b == s % LimbBits
    IN  Trim([i \in 1..(Len(limbs) + a + 1) |->
                 IF i <= a THEN 0
                 ELSE (IF i - a <= Len(limbs)
                       THEN (limbs[i - a] % Pow2Tab[LimbBits - b]) * Pow2Tab[b] ELSE 0)
                      + (IF i - a - 1 >= 1
                         THEN limbs[i - a - 1] \div Pow2Tab[LimbBits - b] ELSE 0)])

\* number of zero bits at the low end of a non-zero limb sequence
TrailingZeros(limbs) ==
    LET first == CHOOSE i \in 1..Len(limbs) :
                     limbs[i] # 0 /\ \A j \in 1..(i - 1) : limbs[j] = 0
        low   == CHOOSE k \in 0..(LimbBits - 1) :
                     /\ limbs[first] % Pow2Tab[k] = 0
                     /\ limbs[first] % Pow2Tab[k + 1] # 0
    IN  LimbBits * (first - 1) + low

\* limbs * n + carry
RECURSIVE MulLimbs(_, _, _)
MulLimbs(limbs, n, carry) ==
    IF limbs = << >>
    THEN IF carry = 0 THEN << >>
         ELSE <<carry % LimbBase>> \o MulLimbs(<< >>, n, carry \div LimbBase)
    ELSE LET t == limbs[1] * n + carry
         IN  <<t % LimbBase>> \o MulLimbs(Tail(limbs), n, t \div LimbBase)

\* a + b + carry
RECURSIVE AddLimbs(_, _, _)
AddLimbs(a, b, carry) ==
    IF a = << >> /\ b = << >>
    THEN IF carry = 0 THEN << >> ELSE <<carry>>
    ELSE LET t == (IF a = << >> THEN 0 ELSE a[1]) + (IF b = << >> THEN 0 ELSE b[1]) + carry
         IN  <<t % LimbBase>>
                 \o AddLimbs(IF a = << >> THEN a ELSE Tail(a),
                             IF b = << >> THEN b ELSE Tail(b), t \div LimbBase)

\* the limbs of a natural number
ToLimbs(n) == MulLimbs(<< >>, 0, n)

\* the natural number of a limb sequence
RECURSIVE FromLimbs(_)
FromLimbs(limbs) ==
    IF limbs = << >> THEN 0 ELSE limbs[1] + LimbBase * FromLimbs(Tail(limbs))

\* the value limbs * 2^e with the trailing zero bits moved into the exponent
Canonical(limbs, e) ==
    IF limbs = << >> THEN FZero
    ELSE LET tz == TrailingZeros(limbs)
         IN  [m |-> ShiftRight(limbs, tz), e |-> e + tz]

\* round-to-nearest, ties-to-even, of limbs * 2^e to 53 significant bits;
\* sticky tells that the exact value lies above limbs * 2^e by less than 2^e
RoundLimbs(limbs, e, sticky) ==
    LET n == BitLen(limbs)
        s == n - Precision
    IN  IF s <= 0 THEN Canonical(limbs, e)
        ELSE LET keep  == ShiftRight(limbs, s)
                 guard == Bit(limbs, s - 1)
                 rest  == sticky \/ ~LowZero(limbs, s - 1)
                 up    == guard = 1 /\ (rest \/ keep[1] % 2 = 1)
             IN  Canonical(IF up THEN AddLimbs(keep, <<1>>, 0) ELSE keep, e + s)

\* q * 2^k <= p < q * 2^(k+1)
RECURSIVE Normalise(_, _, _)
Normalise(p, q, k) ==
    IF p < q THEN Normalise(2 * p, q, k - 1)
    ELSE IF p >= 2 * q THEN Normalise(p, 2 * q, k + 1)
    ELSE [p |-> p, q |-> q, k |-> k]

\* n + 1 quotient limbs of rem / q by long division, and the remainder left
RECURSIVE DivLimbs(_, _, _)
DivLimbs(rem, q, n) ==
    IF n = 0 THEN [limbs |-> <<rem \div q>>, rem |-> rem % q]
    ELSE LET rest == DivLimbs((rem % q) * LimbBase, q, n - 1)
         IN  [limbs |-> rest.limbs \o <<rem \div q>>, rem |-> rest.rem]

\* the binary64 quotient p / q of two integers held as Numbers
FDiv(p, q) ==
    IF p = 0 THEN FZero
    ELSE LET nm == Normalise(p, q, 0)
             \* 1 + 5 * 13 = 66 quotient bits: the significand, the guard bit
             \* and more; what the division leaves is sticky
             d  == DivLimbs(nm.p, nm.q, 5)
         IN  RoundLimbs(d.limbs, nm.k - 5 * LimbBits, d.rem # 0)

\* the Number holding the integer n
FInt(n) == Canonical(ToLimbs(n), 0)

\* the binary64 product a * b; one operand has a short significand
\* (an integer or a power of two), as every product of the renderer does
FMul(a, b) ==
    IF a.m = << >> \/ b.m = << >> THEN FZero
    ELSE LET long  == IF Len(b.m) <= Len(a.m) THEN a ELSE b
             short == IF Len(b.m) <= Len(a.m) THEN b ELSE a
         IN  RoundLimbs(MulLimbs(long.m, FromLimbs(short.m), 0), long.e + short.e, FALSE)

\* the binary64 sum a + b
FAdd(a, b) ==
    IF a.m = << >> THEN b
    ELSE IF b.m = << >> THEN a
    ELSE LET lo == Min(a.e, b.e)
         IN  RoundLimbs(AddLimbs(ShiftLeft(a.m, a.e - lo), ShiftLeft(b.m, b.e - lo), 0),
                        lo, FALSE)

\* Math.floor
MathFloor(a) ==
    IF a.e >= 0 THEN FromLimbs(ShiftLeft(a.m, a.e))
    ELSE FromLimbs(ShiftRight(a.m, -a.e))

-----------------------------------------------------------------------------
(* The renderer: the body of img.onload, App.js lines 84-137.              *)

\* ASCII character set, ordered from lightest to darkest visual density
REVERSED_ALL_ASCII_CHARS ==
    <<" ", ".", ",", ":", ";", "+", "*", "?", "%", "S", "#", "@">>

\* Alphanumeric ASCII character set, ordered from lightest to darkest
REVERSED_ALPHANUMERIC_CHARS ==
    <<" ", ".", "1", "l", "t", "c", "e", "s", "u", "d", "h", "k", "m", "0", "8", "M", "W">>

\* const charAspectRatio = 0.5
charAspectRatio == FDiv(5, 10)

\* the luminance weights 0.2126, 0.7152, 0.0722 as the Numbers the literals denote
WeightR == FDiv(2126, 10000)

WeightG == FDiv(7152, 10000)

WeightB == FDiv(722, 10000)

\* Math.floor((originalHeight / originalWidth) * asciiWidth * charAspectRatio)
NewHeight(originalHeight, originalWidth, W, A) ==
    MathFloor(FMul(FMul(FDiv(originalHeight, originalWidth), FInt(W)), A))

\* SourceCoord with Math.round in place of Math.floor
SourceCoordRound(i, n, size) == MathFloor(FAdd(FMul(FDiv(i, n), FInt(size)), FDiv(1, 2)))

\* Math.floor((x / asciiWidth) * originalWidth), Math.floor((y / newHeight) * originalHeight)
SourceCoord(i, n, size) == MathFloor(FMul(FDiv(i, n), FInt(size)))

\* PixelIndex counting the pixels from 1
PixelIndexOneBased(sourceX, sourceY, originalWidth) == (sourceY * originalWidth + sourceX + 1) * 4

\* (sourceY * originalWidth + sourceX) * 4
PixelIndex(sourceX, sourceY, originalWidth) == (sourceY * originalWidth + sourceX) * 4

\* Luminance as the plain sum of the channels
LuminanceUnweighted(r, g, b) == r + g + b

\* Math.floor(0.2126 * r + 0.7152 * g + 0.0722 * b)
Luminance(r, g, b) ==
    MathFloor(FAdd(FAdd(FMul(WeightR, FInt(r)), FMul(WeightG, FInt(g))),
                   FMul(WeightB, FInt(b))))

\* Invert without the test of the flag
InvertAlways(grayscale, invert) == 255 - grayscale

\* if (invertColors) grayscale = 255 - grayscale
Invert(grayscale, invert) == IF invert THEN 255 - grayscale ELSE grayscale

\* CharIndex scaled by the length of the character set, not by length - 1
CharIndexByLength(grayscale, length) == MathFloor(FMul(FDiv(grayscale, 255), FInt(length)))

\* Math.floor((grayscale / 255) * (currentAsciiCharSet.length - 1))
CharIndex(grayscale, length) == MathFloor(FMul(FDiv(grayscale, 255), FInt(length - 1)))

\* currentAsciiCharSet[charIndex] as appended to a string: an index outside
\* the array reads undefined
Glyph(ramp, charIndex) ==
    IF charIndex \in 0..(Len(ramp) - 1) THEN ramp[charIndex + 1] ELSE "undefined"

\* what one execution of the inner loop body computes from the pixel
\* at pixelIndex (lines 117-134); data is the RGBA buffer, 0-based in the code
Sample(data, pixelIndex, ramp, invert) ==
    IF pixelIndex + 2 >= Len(data)
    THEN \* r, g, b read undefined: grayscale and charIndex are NaN
         [inside |-> FALSE, luminance |-> -1, grayscale |-> -1, charIndex |-> -1,
          glyph |-> "undefined"]
    ELSE LET r         == data[pixelIndex + 1]
             g         == data[pixelIndex + 2]
             b         == data[pixelIndex + 3]
             luminance == Luminance(r, g, b)
             grayscale == Invert(luminance, invert)
             charIndex == CharIndex(grayscale, Len(ramp))
         IN  [inside |-> TRUE, luminance |-> luminance, grayscale |-> grayscale,
              charIndex |-> charIndex, glyph |-> Glyph(ramp, charIndex)]

\* the element of a one-element set; it names an intermediate result so
\* that it is computed once
The(S) == CHOOSE v \in S : TRUE

\* Concat without the newline after each row
ConcatNoNewline(W, newHeight, sourceXs, sourceYs, originalWidth, samples) ==
    [i \in 1..(newHeight * W) |->
        LET y1 == ((i - 1) \div W) + 1
            x1 == ((i - 1) % W) + 1
        IN  samples[PixelIndex(sourceXs[x1], sourceYs[y1], originalWidth)].glyph]

\* ascii after the loops: for each y the glyph of every x, then '\n'
Concat(W, newHeight, sourceXs, sourceYs, originalWidth, samples) ==
    [i \in 1..(newHeight * (W + 1)) |->
        LET y1 == ((i - 1) \div (W + 1)) + 1
            x1 == ((i - 1) % (W + 1)) + 1
        IN  IF x1 = W + 1 THEN "\n"
            ELSE samples[PixelIndex(sourceXs[x1], sourceYs[y1], originalWidth)].glyph]

\* Loops with x <= asciiWidth as the inner loop's test
LoopsInclusive(img, W, newHeight, ramp, invert) ==
    The({The({[done |-> TRUE, newHeight |-> newHeight, sourceXs |-> sourceXs,
               sourceYs |-> sourceYs, samples |-> samples,
               ascii |-> Concat(W + 1, newHeight, sourceXs, sourceYs, img.width, samples)] :
              samples \in {[p \in {PixelIndex(sourceXs[x1], sourceYs[y1], img.width) :
                                      x1 \in 1..(W + 1), y1 \in 1..newHeight} |->
                               Sample(img.data, p, ramp, invert)]}}) :
         sourceXs \in {[x1 \in 1..(W + 1) |-> SourceCoord(x1 - 1, W, img.width)]},
         sourceYs \in {[y1 \in 1..newHeight |->
                           SourceCoord(y1 - 1, newHeight, img.height)]}})

\* the two for loops, lines 107-137.  sourceX depends on x only, sourceY on
\* y only and the sample on the pixel only: each is computed once, kept by
\* column, by row and by pixel, and looked up by the loop body.
Loops(img, W, newHeight, ramp, invert) ==
    The({The({[done |-> TRUE, newHeight |-> newHeight, sourceXs |-> sourceXs,
               sourceYs |-> sourceYs, samples |-> samples,
               ascii |-> Concat(W, newHeight, sourceXs, sourceYs, img.width, samples)] :
              samples \in {[p \in {PixelIndex(sourceXs[x1], sourceYs[y1], img.width) :
                                      x1 \in 1..W, y1 \in 1..newHeight} |->
                               Sample(img.data, p, ramp, invert)]}}) :
         sourceXs \in {[x1 \in 1..W |-> SourceCoord(x1 - 1, W, img.width)]},
         sourceYs \in {[y1 \in 1..newHeight |->
                           SourceCoord(y1 - 1, newHeight, img.height)]}})

\* lines 89-137 for the image img, width W, aspect ratio A, character set ramp
Render(img, W, A, ramp, invert) ==
    The({Loops(img, W, newHeight, ramp, invert) :
         newHeight \in {NewHeight(img.height, img.width, W, A)}})

-----------------------------------------------------------------------------
(* Images and files.                                                       *)

Black == <<0, 0, 0>>

White == <<255, 255, 255>>

\* the RGBA buffer getImageData returns for a width x height image whose
\* pixel (sx, sy) is p0 when sx + sy is even and p1 when it is odd
Checker(width, height, p0, p1) ==
    [width |-> width, height |-> height,
     data |-> [k \in 1..(4 * width * height) |->
                  LET pixel == (k - 1) \div 4
                      c     == ((k - 1) % 4) + 1
                      sx    == pixel % width
                      sy    == pixel \div width
                  IN  IF c = 4 THEN 255
                      ELSE IF (sx + sy) % 2 = 0 THEN p0[c] ELSE p1[c]]]

\* bounds of the renderer's input space
MaxDim == 2

MaxW == 4

\* channel values of the one-pixel input images
Channels == {0, 128, 255}

\* pixel values of the larger input images: the extremes, a grey and a colour
\* whose luminance sum is rounded below the exact value
Palette == {Black, White, <<5, 5, 5>>, <<0, 28, 152>>}

\* a caller-supplied two-glyph ramp
TwoGlyphRamp == <<" ", "#">>

Ramps == {REVERSED_ALL_ASCII_CHARS, REVERSED_ALPHANUMERIC_CHARS, TwoGlyphRamp}

AspectRatios == {charAspectRatio, FInt(1)}

Images ==
    {Checker(1, 1, <<r, g, b>>, Black) : r \in Channels, g \in Channels, b \in Channels}
        \cup {Checker(w, h, p0, p1) :
                  w \in 1..MaxDim, h \in 1..MaxDim, p0 \in Palette, p1 \in Palette}

\* the files the user can select: two images and a file that does not decode
Files == {"wide", "strip", "corrupt"}

Decodable == {"wide", "strip"}

FileImage ==
    [f \in Decodable |->
        IF f = "wide" THEN Checker(61, 1, Black, White)
        ELSE Checker(60, 1, White, <<0, 136, 24>>)]

\* texts the user can leave in the width field
TypedValues == {<< >>, <<"a">>, <<"0">>, <<"-", "5">>, <<"9", "9", "9">>}

\* file reads in flight at once
MaxReaders == 1

NULL == "null"

-----------------------------------------------------------------------------
(* The component's state.                                                  *)

VARIABLES
    imageSrc,             \* data URL of the uploaded image: a file, or NULL
    asciiArt,             \* the generated ASCII art, a sequence of characters
    isLoading,
    asciiWidth,
    message,
    isModalOpen,
    modalContent,
    invertColors,
    useAlphanumericOnly,
    readers,              \* files whose FileReader has not finished
    loads,                \* Image objects loading: the closure of each click
    call,                 \* arguments of the renderer's run that made asciiArt
    grid                  \* what that run computed; forgotten when asciiArt is cleared

vars == <<imageSrc, asciiArt, isLoading, asciiWidth, message, isModalOpen, modalContent,
          invertColors, useAlphanumericOnly, readers, loads, call, grid>>

appVars == <<imageSrc, asciiArt, isLoading, asciiWidth, message, isModalOpen, modalContent,
             invertColors, useAlphanumericOnly, readers, loads>>

NoCall == [img |-> Checker(1, 1, Black, Black), W |-> 0, A |-> FZero,
           ramp |-> << >>, invert |-> FALSE]

NoGrid == [done |-> FALSE, newHeight |-> 0, sourceXs |-> << >>, sourceYs |-> << >>,
           samples |-> << >>, ascii |-> << >>]

\* the useState initial values
InitApp ==
    /\ imageSrc = NULL
    /\ asciiArt = << >>
    /\ isLoading = FALSE
    /\ asciiWidth = 120
    /\ message = ""
    /\ isModalOpen = FALSE
    /\ modalContent = ""
    /\ invertColors = FALSE
    /\ useAlphanumericOnly = FALSE
    /\ readers = {}
    /\ loads = {}

Init ==
    /\ InitApp
    /\ call = NoCall
    /\ grid = NoGrid

DigitValue(c) ==
    CASE c = "0" -> 0 [] c = "1" -> 1 [] c = "2" -> 2 [] c = "3" -> 3 [] c = "4" -> 4
      [] c = "5" -> 5 [] c = "6" -> 6 [] c = "7" -> 7 [] c = "8" -> 8 [] c = "9" -> 9
      [] OTHER -> -1

\* value of the leading digits of text, after the digits read so far
RECURSIVE ParseDigits(_, _)
ParseDigits(text, acc) ==
    IF text = << >> \/ DigitValue(Head(text)) < 0 THEN acc
    ELSE ParseDigits(Tail(text), 10 * acc + DigitValue(Head(text)))

\* parseInt(text): optional sign, leading digits; NaN when there is no digit
ParseInt(text) ==
    LET negative == text # << >> /\ Head(text) = "-"
        signed   == text # << >> /\ Head(text) \in {"-", "+"}
        digits   == IF signed THEN Tail(text) ELSE text
    IN  IF digits = << >> \/ DigitValue(Head(digits)) < 0 THEN [isNaN |-> TRUE, value |-> 0]
        ELSE [isNaN |-> FALSE,
              value |-> IF negative THEN -ParseDigits(digits, 0) ELSE ParseDigits(digits, 0)]

\* ClampWidth without Math.min(300, ...)
ClampWidthNoUpper(text) ==
    LET parsed == ParseInt(text)
        chosen == IF parsed.isNaN \/ parsed.value = 0 THEN 120 ELSE parsed.value
    IN  Max(30, chosen)

\* Math.max(30, Math.min(300, parseInt(e.target.value) || 120))
ClampWidth(text) ==
    LET parsed == ParseInt(text)
        chosen == IF parsed.isNaN \/ parsed.value = 0 THEN 120 ELSE parsed.value
    IN  Max(30, Min(300, chosen))

\* the widths the field can hold: its initial value or a clamped entry
Widths == {120} \cup {ClampWidth(text) : text \in TypedValues}

\* showModal(content)
ShowModal(content) ==
    /\ modalContent' = content
    /\ isModalOpen' = TRUE

\* hideModal, the modal's OK button
HideModal ==
    /\ isModalOpen
    /\ isModalOpen' = FALSE
    /\ modalContent' = ""
    /\ UNCHANGED <<imageSrc, asciiArt, isLoading, asciiWidth, message, invertColors,
                   useAlphanumericOnly, readers, loads, call, grid>>

\* handleFileChange with a file selected
HandleFileChange(file) ==
    /\ Cardinality(readers) < MaxReaders
    /\ file \notin readers
    /\ message' = ""
    /\ asciiArt' = << >>
    /\ readers' = readers \cup {file}
    /\ call' = NoCall
    /\ grid' = NoGrid
    /\ UNCHANGED <<imageSrc, isLoading, asciiWidth, isModalOpen, modalContent, invertColors,
                   useAlphanumericOnly, loads>>

\* reader.onloadend after a successful read
ReaderOnloadend(file) ==
    /\ file \in readers
    /\ readers' = readers \ {file}
    /\ imageSrc' = file
    /\ UNCHANGED <<asciiArt, isLoading, asciiWidth, message, isModalOpen, modalContent,
                   invertColors, useAlphanumericOnly, loads, call, grid>>

\* a failed read: reader.onerror, then reader.onloadend with a null result
ReaderOnerror(file) ==
    /\ file \in readers
    /\ readers' = readers \ {file}
    /\ ShowModal("Error reading file. Please try again.")
    /\ imageSrc' = NULL
    /\ UNCHANGED <<asciiArt, isLoading, asciiWidth, message, invertColors,
                   useAlphanumericOnly, loads, call, grid>>

\* convertImageToAscii up to img.src = imageSrc; the Convert button is
\* disabled while isLoading || !imageSrc
ConvertImageToAscii ==
    /\ ~(isLoading \/ imageSrc = NULL)
    /\ IF imageSrc = NULL
       THEN /\ ShowModal("Please upload an image first.")
            /\ UNCHANGED <<isLoading, asciiArt, message, loads, call, grid>>
       ELSE /\ isLoading' = TRUE
            /\ asciiArt' = << >>
            /\ message' = "Converting image..."
            /\ loads' = loads \cup {[src |-> imageSrc, asciiWidth |-> asciiWidth,
                                     invertColors |-> invertColors,
                                     useAlphanumericOnly |-> useAlphanumericOnly]}
            /\ call' = NoCall
            /\ grid' = NoGrid
            /\ UNCHANGED <<isModalOpen, modalContent>>
    /\ UNCHANGED <<imageSrc, asciiWidth, invertColors, useAlphanumericOnly, readers>>

\* lines 102-104
CurrentAsciiCharSet(l) ==
    IF l.useAlphanumericOnly THEN REVERSED_ALPHANUMERIC_CHARS ELSE REVERSED_ALL_ASCII_CHARS

\* arguments of the renderer in the handler of closure l
CallOf(l) ==
    [img |-> FileImage[l.src], W |-> l.asciiWidth, A |-> charAspectRatio,
     ramp |-> CurrentAsciiCharSet(l), invert |-> l.invertColors]

\* the closures a click can leave with an image that decodes
Closures ==
    {[src |-> f, asciiWidth |-> w, invertColors |-> i, useAlphanumericOnly |-> a] :
        f \in Decodable, w \in Widths, i \in BOOLEAN, a \in BOOLEAN}

\* lines 84-137 of the handler of each closure, computed once
Rendered ==
    [l \in Closures |-> Render(FileImage[l.src], l.asciiWidth, charAspectRatio,
                                CurrentAsciiCharSet(l), l.invertColors)]

\* ImgOnload treating an empty rendering as a failure
ImgOnloadEmptyFails(l) ==
    /\ l \in loads
    /\ l.src \in Decodable
    /\ \E result \in {Rendered[l]} :
           /\ call' = CallOf(l)
           /\ grid' = result
           /\ asciiArt' = result.ascii
           /\ IF result.ascii = << >>
              THEN /\ ShowModal("Could not load image. Please check the file format or try another image.")
                   /\ message' = "Image loading failed."
              ELSE /\ message' = "Conversion complete!"
                   /\ UNCHANGED <<isModalOpen, modalContent>>
    /\ isLoading' = FALSE
    /\ loads' = loads \ {l}
    /\ UNCHANGED <<imageSrc, asciiWidth, invertColors, useAlphanumericOnly, readers>>

\* img.onload: the image decoded; the handler runs with the state its click saw
ImgOnload(l) ==
    /\ l \in loads
    /\ l.src \in Decodable
    /\ \E result \in {Rendered[l]} :
           /\ call' = CallOf(l)
           /\ grid' = result
           /\ asciiArt' = result.ascii
    /\ message' = "Conversion complete!"
    /\ isLoading' = FALSE
    /\ loads' = loads \ {l}
    /\ UNCHANGED <<imageSrc, asciiWidth, isModalOpen, modalContent, invertColors,
                   useAlphanumericOnly, readers>>

\* img.onerror: the data URL does not decode
ImgOnerror(l) ==
    /\ l \in loads
    /\ l.src \notin Decodable
    /\ ShowModal("Could not load image. Please check the file format or try another image.")
    /\ isLoading' = FALSE
    /\ message' = "Image loading failed."
    /\ loads' = loads \ {l}
    /\ UNCHANGED <<imageSrc, asciiArt, asciiWidth, invertColors, useAlphanumericOnly,
                   readers, call, grid>>

\* onChange of the width field
WidthChange(text) ==
    /\ asciiWidth' = ClampWidth(text)
    /\ UNCHANGED <<imageSrc, asciiArt, isLoading, message, isModalOpen, modalContent,
                   invertColors, useAlphanumericOnly, readers, loads, call, grid>>

\* onChange of the invert checkbox
InvertChange ==
    /\ invertColors' = ~invertColors
    /\ UNCHANGED <<imageSrc, asciiArt, isLoading, asciiWidth, message, isModalOpen,
                   modalContent, useAlphanumericOnly, readers, loads, call, grid>>

\* onChange of the alphanumeric checkbox
AlphanumericChange ==
    /\ useAlphanumericOnly' = ~useAlphanumericOnly
    /\ UNCHANGED <<imageSrc, asciiArt, isLoading, asciiWidth, message, isModalOpen,
                   modalContent, invertColors, readers, loads, call, grid>>

Next ==
    \/ \E file \in Files : HandleFileChange(file)
    \/ \E file \in Files : ReaderOnloadend(file)
    \/ \E file \in Files : ReaderOnerror(file)
    \/ ConvertImageToAscii
    \/ \E l \in loads : ImgOnload(l)
    \/ \E l \in loads : ImgOnerror(l)
    \/ \E text \in TypedValues : WidthChange(text)
    \/ InvertChange
    \/ AlphanumericChange
    \/ HideModal

Spec == Init /\ [][Next]_vars

-----------------------------------------------------------------------------
(* The renderer as a function of its arguments: every argument drawn from  *)
(* a bounded set, the component idle.                                      *)

RenderInputs ==
    [img : Images, W : 0..MaxW, A : AspectRatios, ramp : Ramps, invert : BOOLEAN]

InitRender ==
    /\ InitApp
    /\ call \in RenderInputs
    /\ grid = NoGrid

RenderCall ==
    /\ ~grid.done
    /\ grid' = Render(call.img, call.W, call.A, call.ramp, call.invert)
    /\ UNCHANGED <<call, appVars>>

NextRender == RenderCall

SpecRender == InitRender /\ [][NextRender]_vars

-----------------------------------------------------------------------------
(* Properties.                                                             *)

\* the image of the finished run is valid and so is its target width
ValidCall == call.img.width >= 1 /\ call.img.height >= 1 /\ call.W >= 1

Cols == 1..call.W

Rows == 1..grid.newHeight

\* index in the pixel buffer of the pixel the cell of row y1, column x1 read
PixelOf(x1, y1) == PixelIndex(grid.sourceXs[x1], grid.sourceYs[y1], call.img.width)

\* the character of the output at row y1, column x1 (column W + 1 ends the row)
CharAt(x1, y1) == grid.ascii[(y1 - 1) * (call.W + 1) + x1]

\* r, g, b of the pixel at buffer index p
RGBAt(p) == <<call.img.data[p + 1], call.img.data[p + 2], call.img.data[p + 3]>>

Predefined == {REVERSED_ALL_ASCII_CHARS, REVERSED_ALPHANUMERIC_CHARS}

ExampleCall ==
    [img |-> Checker(2, 2, Black, White), W |-> 2, A |-> FInt(1), ramp |-> TwoGlyphRamp,
     invert |-> FALSE]

C3_BlackAndWhiteEnds ==
    (grid.done /\ ValidCall /\ call.ramp \in Predefined) =>
        \A p \in DOMAIN grid.samples :
            LET last == Len(call.ramp) - 1
            IN  /\ RGBAt(p) = Black =>
                       grid.samples[p].charIndex = IF call.invert THEN last ELSE 0
                /\ RGBAt(p) = White =>
                       grid.samples[p].charIndex = IF call.invert THEN 0 ELSE last

\* C4 as stated: for either invert setting, L1 <= L2 implies that the index
\* of the first pixel is <= the index of the second.
C4_IndexNeverDecreases ==
    (grid.done /\ ValidCall) =>
        \A p \in DOMAIN grid.samples, q \in DOMAIN grid.samples :
            grid.samples[p].luminance <= grid.samples[q].luminance
                => grid.samples[p].charIndex <= grid.samples[q].charIndex

\* C4, amended: with invert off the index never decreases as the luminance
\* increases; with invert on it never increases.
C4_MonotoneInLuminance ==
    (grid.done /\ ValidCall) =>
        \A p \in DOMAIN grid.samples, q \in DOMAIN grid.samples :
            grid.samples[p].luminance <= grid.samples[q].luminance
                => IF call.invert
                   THEN grid.samples[p].charIndex >= grid.samples[q].charIndex
                   ELSE grid.samples[p].charIndex <= grid.samples[q].charIndex

C4_Witness ==
    /\ grid.done /\ ValidCall /\ call.invert
    /\ \E p \in DOMAIN grid.samples, q \in DOMAIN grid.samples :
           /\ grid.samples[p].luminance < grid.samples[q].luminance
           /\ grid.samples[p].charIndex > grid.samples[q].charIndex

\* C5: the glyph index is an integer in [0, rampLength - 1] and every glyph
\* emitted is an element of the selected ramp.
C5_GlyphInRamp ==
    (grid.done /\ ValidCall) =>
        /\ \A p \in DOMAIN grid.samples :
               grid.samples[p].charIndex \in 0..(Len(call.ramp) - 1)
        /\ \A x1 \in Cols, y1 \in Rows :
               \E k \in 1..Len(call.ramp) : CharAt(x1, y1) = call.ramp[k]

C5_Witness ==
    /\ grid.done /\ ValidCall /\ call.ramp = REVERSED_ALPHANUMERIC_CHARS
    /\ \E x1 \in Cols, y1 \in Rows : CharAt(x1, y1) = "W"
    /\ \E x1 \in Cols, y1 \in Rows : CharAt(x1, y1) = " "

C7_RenderCompletes ==
    (grid.done /\ ValidCall) =>
        /\ asciiArt = grid.ascii
        /\ ~isLoading
        /\ Cardinality({i \in 1..Len(asciiArt) : asciiArt[i] # "\n"})
               = NewHeight(call.img.height, call.img.width, call.W, call.A) * call.W

C7_Witness ==
    /\ grid.done /\ grid.newHeight >= 2 /\ call.W = 300
    /\ asciiArt # << >> /\ message = "Conversion complete!"

\* C8: when H evaluates to 0 the handler completes normally: the output is
\* empty, no y / H was evaluated, no modal is opened, isLoading is reset and
\* the completion message is set.
C8_EmptyGridIsNotAnError ==
    [][(~grid.done /\ grid'.done /\ grid'.newHeight = 0) =>
           /\ asciiArt' = << >>
           /\ grid'.sourceYs = << >>
           /\ isModalOpen' = isModalOpen
           /\ modalContent' = modalContent
           /\ ~isLoading'
           /\ message' = "Conversion complete!"]_vars

C8_Witness ==
    /\ grid.done /\ ValidCall /\ grid.newHeight = 0
    /\ asciiArt = << >> /\ message = "Conversion complete!" /\ ~isLoading /\ ~isModalOpen

\* C9: a 1x1 image with H >= 1: every cell samples pixel (0, 0) and holds the
\* glyph of that pixel's luminance, the invert flag and the ramp.
C9_OnePixelOneGlyph ==
    (grid.done /\ ValidCall /\ call.img.width = 1 /\ call.img.height = 1
              /\ grid.newHeight >= 1) =>
        LET rgb == RGBAt(0)
            L   == Invert(Luminance(rgb[1], rgb[2], rgb[3]), call.invert)
        IN  \A x1 \in Cols, y1 \in Rows :
                /\ grid.sourceXs[x1] = 0
                /\ grid.sourceYs[y1] = 0
                /\ CharAt(x1, y1) = CharAt(1, 1)
                /\ CharAt(x1, y1) = call.ramp[CharIndex(L, Len(call.ramp)) + 1]

C9_Witness ==
    /\ grid.done /\ call.img.width = 1 /\ call.img.height = 1
    /\ call.W >= 3 /\ grid.newHeight >= 2

\* C10: the luminance of every pixel read lies in [0, 255], and so does the
\* value 255 - L fed to the index formula when invert is on.
C10_LuminanceInRange ==
    (grid.done /\ ValidCall) =>
        \A p \in DOMAIN grid.samples :
            /\ grid.samples[p].luminance \in 0..255
            /\ grid.samples[p].grayscale \in 0..255

C10_Witness ==
    /\ grid.done /\ ValidCall /\ call.invert
    /\ \E p \in DOMAIN grid.samples : RGBAt(p) = White /\ grid.samples[p].grayscale \in 0..255
    /\ \E p \in DOMAIN grid.samples : grid.samples[p].grayscale = 255

\* C11: asciiWidth starts at 120 and stays an integer in [30, 300] whatever
\* is entered in the width field; so does the width every conversion captured
\* and the width of the run that made asciiArt.
C11_WidthInRange ==
    /\ asciiWidth \in 30..300
    /\ \A l \in loads : l.asciiWidth \in 30..300
    /\ grid.done => call.W \in 30..300

C11_Witness ==
    /\ asciiWidth = 30
    /\ grid.done /\ call.W = 300

\* cells per row or column, and pixels per side, of the coordinates tabulated
MaxCells == 24

MaxSide == 32

\* every coordinate Math.floor((i / n) * size) with 0 <= i < n is in [0, size - 1]
CoordsInside ==
    \A n \in 1..MaxCells, size \in 1..MaxSide :
        \A i \in 0..(n - 1) : SourceCoord(i, n, size) \in 0..(size - 1)

\* C12: for a valid image and W >= 1, every cell reads a pixel inside the
\* image: sourceX is in [0, width - 1], sourceY in [0, height - 1], and
\* pixelIndex + 2 < 4 * width * height, so r, g and b come from the buffer.
C12_ReadsInsideImage ==
    (grid.done /\ ValidCall) =>
        /\ \A x1 \in Cols : grid.sourceXs[x1] \in 0..(call.img.width - 1)
        /\ \A y1 \in Rows : grid.sourceYs[y1] \in 0..(call.img.height - 1)
        /\ \A x1 \in Cols, y1 \in Rows :
               /\ PixelOf(x1, y1) + 2 < 4 * call.img.width * call.img.height
               /\ PixelOf(x1, y1) + 3 <= Len(call.img.data)
               /\ grid.samples[PixelOf(x1, y1)].inside
        /\ \A p \in DOMAIN grid.samples : grid.samples[p].inside
        /\ CoordsInside

C12_Witness ==
    /\ grid.done /\ ValidCall
    /\ call.img.width = MaxDim /\ call.img.height = MaxDim
    /\ \E x1 \in Cols, y1 \in Rows : PixelOf(x1, y1) + 4 = Len(call.img.data)
    /\ \E x1 \in Cols, y1 \in Rows : PixelOf(x1, y1) = 0

\* C13: under any interleaving of file selections, Convert clicks and the
\* FileReader and Image callbacks, a non-empty asciiArt is a rendering of the
\* image held in imageSrc: no conversion of an earlier image publishes after
\* a newer file was selected.
C13_AsciiArtOfCurrentImage ==
    (asciiArt # << >>) =>
        /\ imageSrc \in Decodable
        /\ \E l \in Closures : l.src = imageSrc /\ asciiArt = Rendered[l].ascii

====
